---- MODULE Spec2Model ----
(***************************************************************************)
(* A model of src/app.py: the Flask chat mediator.  The state is the       *)
(* session store (Flask's `session` dict of one browser session), the wall *)
(* clock, and the last request / provider completion / response.  Each     *)
(* route handler is one action.  Text is a sequence of one-character       *)
(* strings, so that the markdown cleaning is computed, not assumed.        *)
(***************************************************************************)
EXTENDS Integers, Sequences, FiniteSets, TLC

VARIABLES
  session,     \* flask.session: a dict, keys among conversation, session_start, usage_today
  today,       \* the calendar day datetime.now() falls on
  now,         \* the instant datetime.now() returns, a logical clock
  request,     \* the request the last handler served
  calls,       \* the provider calls the last handler made: messages sent, what came back
  response,    \* the response of the last handler
  hist,        \* history: what was appended and recorded since the session was created
  inflight     \* per worker thread: the request being served and its copy of the session

vars == <<session, today, now, request, calls, response, hist, inflight>>

----------------------------------------------------------------------------
(* Bounds of the model *)

MaxDay == 2         \* days the clock runs through
MaxNow == 4         \* clock readings in the full sequential specification
QuotaMaxNow == 52   \* clock readings in the quota specification
ConcMaxNow == 3     \* clock readings in the concurrent specification
PromptMaxNow == 6   \* clock readings in the prompt specification

(* Constants of the program *)

RequestLimit == 50        \* check_rate_limit: requests
TokenLimit == 25000       \* check_rate_limit: completion tokens
KeepExchanges == 10       \* query_route: conversation[-10:]
WindowExchanges == 3      \* query_route: session.get("conversation", [])[-3:]

----------------------------------------------------------------------------
(* Python dicts as functions over the keys they hold *)

EmptyDict == << >>
Has(d, k) == k \in DOMAIN d
Get(d, k, default) == IF k \in DOMAIN d THEN d[k] ELSE default
Put(d, k, v) == [x \in (DOMAIN d) \cup {k} |-> IF x = k THEN v ELSE d[x]]

(* seq[-k:] *)
LastK(seq, k) == IF Len(seq) <= k THEN seq ELSE SubSeq(seq, Len(seq) - k + 1, Len(seq))

Min(a, b) == IF a <= b THEN a ELSE b

----------------------------------------------------------------------------
(* Text *)

RECURSIVE Replace(_, _)
(* str.replace(pat, ''): every non-overlapping occurrence, left to right *)
Replace(s, pat) ==
  IF Len(s) < Len(pat) THEN s
  ELSE IF SubSeq(s, 1, Len(pat)) = pat
       THEN Replace(SubSeq(s, Len(pat) + 1, Len(s)), pat)
       ELSE <<Head(s)>> \o Replace(Tail(s), pat)

Whitespace == {" ", "\n", "\t"}

(* not content.strip() *)
IsBlank(s) == \A i \in 1..Len(s) : s[i] \in Whitespace

SYSTEM_PROMPT == <<"You are GROK, a helpful assistant. Respond briefly and directly: ...">>

QueryPrefix ==
  <<"P","l","e","a","s","e"," ","p","r","o","v","i","d","e"," ","a"," ",
    "c","o","m","p","r","e","h","e","n","s","i","v","e",","," ",
    "d","e","t","a","i","l","e","d"," ","a","n","s","w","e","r",":"," ">>

FallbackText == <<"I couldn't generate a detailed response. Let me try a different approach. Could you rephrase your question or provide more specific details about what you're looking for?">>

----------------------------------------------------------------------------
(* Usage tracking and the rate limit *)

ZeroUsage(day) ==
  [date |-> day, requests |-> 0, prompt_tokens |-> 0, completion_tokens |-> 0]

(* A plausible slip: the day of the stored record is never compared with today *)
track_usage_NoReset(s, prompt_tokens, completion_tokens, day) ==
  LET s0 == IF ~Has(s, "usage_today") THEN Put(s, "usage_today", ZeroUsage(day)) ELSE s
      u  == s0["usage_today"]
  IN Put(s0, "usage_today",
         [u EXCEPT !.requests = @ + 1,
                   !.prompt_tokens = @ + prompt_tokens,
                   !.completion_tokens = @ + completion_tokens])

(* A plausible slip: the prompt tokens are assigned (=) where they are added (+=) *)
track_usage_Assigns(s, prompt_tokens, completion_tokens, day) ==
  LET s0 == IF ~Has(s, "usage_today") THEN Put(s, "usage_today", ZeroUsage(day)) ELSE s
      s1 == IF s0["usage_today"].date # day
            THEN Put(s0, "usage_today", ZeroUsage(day))
            ELSE s0
      u  == s1["usage_today"]
  IN Put(s1, "usage_today",
         [u EXCEPT !.requests = @ + 1,
                   !.prompt_tokens = prompt_tokens,
                   !.completion_tokens = @ + completion_tokens])

(* track_usage(prompt_tokens, completion_tokens), run on the session s on day `day` *)
track_usage(s, prompt_tokens, completion_tokens, day) ==
  LET s0 == IF ~Has(s, "usage_today") THEN Put(s, "usage_today", ZeroUsage(day)) ELSE s
      s1 == IF s0["usage_today"].date # day
            THEN Put(s0, "usage_today", ZeroUsage(day))
            ELSE s0
      u  == s1["usage_today"]
  IN Put(s1, "usage_today",
         [u EXCEPT !.requests = @ + 1,
                   !.prompt_tokens = @ + prompt_tokens,
                   !.completion_tokens = @ + completion_tokens])

RequestLimitMsg == "Daily request limit reached (50). Please try again tomorrow."
TokenLimitMsg == "Daily token limit reached. Please try again tomorrow."

(* check_rate_limit(): (can_proceed, error_msg) *)
check_rate_limit(s) ==
  LET usage == Get(s, "usage_today", EmptyDict)
  IN IF Get(usage, "requests", 0) > RequestLimit
     THEN [can_proceed |-> FALSE, error_msg |-> RequestLimitMsg]
     ELSE IF Get(usage, "completion_tokens", 0) > TokenLimit
          THEN [can_proceed |-> FALSE, error_msg |-> TokenLimitMsg]
          ELSE [can_proceed |-> TRUE, error_msg |-> "None"]

----------------------------------------------------------------------------
(* The /query handler, as functions of the session it runs on *)

(* datetime.now().isoformat(): the instant, written out *)
Timestamp(day, t) == [instant |-> t]

ErrorResponse(status, msg) == [status |-> status, body |-> [error |-> msg]]

NoError == ErrorResponse(0, "")

(* A plausible slip: the rate limit is checked before the request is validated *)
EarlyReturn_RateFirst(s, req) ==
  IF ~Has(s, "conversation")
  THEN ErrorResponse(440, "Session expired. Please refresh the page.")
  ELSE IF ~check_rate_limit(s).can_proceed
  THEN ErrorResponse(429, check_rate_limit(s).error_msg)
  ELSE IF ~req.is_json
  THEN ErrorResponse(400, "Request must be JSON")
  ELSE IF req.data = EmptyDict \/ ~Has(req.data, "query")
  THEN ErrorResponse(400, "Missing \"query\" parameter")
  ELSE NoError

(* query_route up to the provider call: the error it returns early, or NoError *)
EarlyReturn(s, req) ==
  IF ~Has(s, "conversation")
  THEN ErrorResponse(440, "Session expired. Please refresh the page.")
  ELSE IF ~req.is_json
  THEN ErrorResponse(400, "Request must be JSON")
  ELSE IF req.data = EmptyDict \/ ~Has(req.data, "query")
  THEN ErrorResponse(400, "Missing \"query\" parameter")
  ELSE LET rl == check_rate_limit(s)
       IN IF ~rl.can_proceed THEN ErrorResponse(429, rl.error_msg) ELSE NoError

(* A plausible slip: the whole conversation is replayed, not its last three exchanges *)
BuildMessages_WholeLog(s, query) ==
  LET w == Get(s, "conversation", << >>)
  IN <<[role |-> "system", content |-> SYSTEM_PROMPT]>>
     \o [i \in 1..(2 * Len(w)) |->
           IF i % 2 = 1
           THEN [role |-> "user", content |-> w[(i + 1) \div 2].user]
           ELSE [role |-> "assistant", content |-> w[i \div 2].grok]]
     \o <<[role |-> "user", content |-> QueryPrefix \o query]>>

(* conversation_messages *)
BuildMessages(s, query) ==
  LET w == LastK(Get(s, "conversation", << >>), WindowExchanges)
  IN <<[role |-> "system", content |-> SYSTEM_PROMPT]>>
     \o [i \in 1..(2 * Len(w)) |->
           IF i % 2 = 1
           THEN [role |-> "user", content |-> w[(i + 1) \div 2].user]
           ELSE [role |-> "assistant", content |-> w[i \div 2].grok]]
     \o <<[role |-> "user", content |-> QueryPrefix \o query]>>

(* A plausible slip: only the double asterisk is removed *)
CleanContent_OnlyBold(message) ==
  LET content == IF message.is_none
                 THEN << >>
                 ELSE Replace(message.content, <<"*", "*">>)
  IN IF message.is_none \/ content = << >> \/ IsBlank(content)
     THEN FallbackText
     ELSE content

(* the cleaning of completion.choices[0].message.content *)
CleanContent(message) ==
  LET content == IF message.is_none
                 THEN << >>
                 ELSE Replace(Replace(message.content, <<"*", "*">>), <<"*">>)
  IN IF message.is_none \/ content = << >> \/ IsBlank(content)
     THEN FallbackText
     ELSE content

(* A plausible slip: conversation[:10], which keeps the oldest ten *)
TrimConversation_KeepsOldest(conversation) ==
  SubSeq(conversation, 1, Min(Len(conversation), KeepExchanges))

(* conversation[-10:] *)
TrimConversation(conversation) == LastK(conversation, KeepExchanges)

(* A plausible slip: the query is stored as it was sent, instruction prefix included *)
StoreExchange_StoresPrefixed(s1, req, out, content, day, t) ==
  LET conversation == Append(Get(s1, "conversation", << >>),
                             [user |-> QueryPrefix \o req.data["query"],
                              grok |-> content,
                              timestamp |-> Timestamp(day, t)])
  IN [session |-> Put(s1, "conversation", TrimConversation(conversation)),
      response |->
        [status |-> 200,
         body |-> [status |-> "success",
                   query |-> req.data["query"],
                   response |-> content,
                   model |-> "grok-4",
                   usage |-> [prompt_tokens |-> out.prompt_tokens,
                              completion_tokens |-> out.completion_tokens,
                              total_tokens |-> out.total_tokens],
                   session_active |-> TRUE]]]

(* query_route, lines 154-177: store the exchange and build the success response *)
StoreExchange(s1, req, out, content, day, t) ==
  LET conversation == Append(Get(s1, "conversation", << >>),
                             [user |-> req.data["query"],
                              grok |-> content,
                              timestamp |-> Timestamp(day, t)])
  IN [session |-> Put(s1, "conversation", TrimConversation(conversation)),
      response |->
        [status |-> 200,
         body |-> [status |-> "success",
                   query |-> req.data["query"],
                   response |-> content,
                   model |-> "grok-4",
                   usage |-> [prompt_tokens |-> out.prompt_tokens,
                              completion_tokens |-> out.completion_tokens,
                              total_tokens |-> out.total_tokens],
                   session_active |-> TRUE]]]

(* A plausible slip: the request is counted before the provider is called *)
AfterProvider_CountsFirst(s, req, out, day, t) ==
  LET s0 == track_usage(s, 0, 0, day)
  IN IF out.raised
     THEN [session |-> s0, response |-> ErrorResponse(500, "provider error")]
     ELSE IF ~out.has_usage
     THEN [session |-> s0,
           response |-> ErrorResponse(500, "NoneType object has no attribute prompt_tokens")]
     ELSE IF out.choices = << >>
     THEN [session |-> s0, response |-> ErrorResponse(500, "list index out of range")]
     ELSE StoreExchange(s0, req, out, CleanContent(out.choices[1]), day, t)

(* query_route from the provider call on: the session it leaves and its response.
   out is what client.chat.completions.create did. *)
AfterProvider(s, req, out, day, t) ==
  IF out.raised
  THEN [session |-> s, response |-> ErrorResponse(500, "provider error")]
  ELSE IF ~out.has_usage
  THEN [session |-> s,
        response |-> ErrorResponse(500, "NoneType object has no attribute prompt_tokens")]
  ELSE
    LET s1 == track_usage(s, out.prompt_tokens, out.completion_tokens, day)
    IN IF out.choices = << >>
       THEN [session |-> s1, response |-> ErrorResponse(500, "list index out of range")]
       ELSE StoreExchange(s1, req, out, CleanContent(out.choices[1]), day, t)

(* A plausible slip: a request turned away by the rate limit is counted all the same *)
QueryHandler_CountsDenied(s, req, out, day, t) ==
  LET early == EarlyReturn(s, req)
  IN IF early # NoError
     THEN [session |-> IF early.status = 429 THEN track_usage(s, 0, 0, day) ELSE s,
           response |-> early, calls |-> << >>]
     ELSE LET r == AfterProvider(s, req, out, day, t)
          IN [session |-> r.session, response |-> r.response,
              calls |-> <<[messages |-> BuildMessages(s, req.data["query"]),
                           outcome |-> out]>>]

(* query_route as a whole, on the session s: the session it leaves, its response
   and the provider calls it made *)
QueryHandler(s, req, out, day, t) ==
  LET early == EarlyReturn(s, req)
  IN IF early # NoError
     THEN [session |-> s, response |-> early, calls |-> << >>]
     ELSE LET r == AfterProvider(s, req, out, day, t)
          IN [session |-> r.session, response |-> r.response,
              calls |-> <<[messages |-> BuildMessages(s, req.data["query"]),
                           outcome |-> out]>>]

----------------------------------------------------------------------------
(* Requests and provider outcomes the environment can produce *)

QueryRequest(is_json, data) == [route |-> "/query", is_json |-> is_json, data |-> data]
OtherRequest(route) == [route |-> route, is_json |-> FALSE, data |-> EmptyDict]
NoRequest == OtherRequest("none")

Hi == <<"h", "i">>

Requests ==
  { QueryRequest(FALSE, EmptyDict),
    QueryRequest(TRUE, EmptyDict),
    QueryRequest(TRUE, [other |-> <<"x">>]),
    QueryRequest(TRUE, [query |-> << >>]),
    QueryRequest(TRUE, [query |-> Hi]) }

Message(text) == [is_none |-> FALSE, content |-> text]
NoneMessage == [is_none |-> TRUE, content |-> << >>]

Raised ==
  [raised |-> TRUE, has_usage |-> FALSE, prompt_tokens |-> 0, completion_tokens |-> 0,
   total_tokens |-> 0, choices |-> << >>]
NoUsage(choices) ==
  [raised |-> FALSE, has_usage |-> FALSE, prompt_tokens |-> 0, completion_tokens |-> 0,
   total_tokens |-> 0, choices |-> choices]
Completion(p, c, choices) ==
  [raised |-> FALSE, has_usage |-> TRUE, prompt_tokens |-> p, completion_tokens |-> c,
   total_tokens |-> p + c, choices |-> choices]

RawTexts ==
  { <<"*", " ", "*", "*">>,
    <<"4">>,
    <<"*", "*", "4", "*", "*", "*">> }

Outcomes ==
  {Raised, NoUsage(<<Message(<<"4">>)>>)}
  \cup { Completion(10, 1, ch) :
           ch \in {<< >>, <<NoneMessage>>} \cup { <<Message(txt)>> : txt \in RawTexts } }

QuotaRequests == { QueryRequest(FALSE, EmptyDict), QueryRequest(TRUE, [query |-> Hi]) }

QuotaOutcomes ==
  { Completion(10, 1, <<Message(<<"*", "*", "4", "*", "*">>)>>),
    Completion(20, 12500, <<Message(<<"4">>)>>) }

ConcRequests == { QueryRequest(TRUE, [query |-> Hi]), QueryRequest(TRUE, [query |-> <<"y", "o">>]) }

ConcOutcomes ==
  { Completion(10, 1, <<Message(<<"4">>)>>),
    Completion(20, 2, <<Message(<<"*", "*", "4", "*", "*">>)>>) }

Yo == <<"y", "o">>

PromptRequests == { QueryRequest(TRUE, [query |-> Hi]), QueryRequest(TRUE, [query |-> Yo]) }

PromptOutcomes ==
  { Completion(10, 1, <<Message(<<"4">>)>>),
    Completion(10, 1, <<Message(<<"*", "*", "5", "*", "*">>)>>) }

Threads == {1, 2}

----------------------------------------------------------------------------
(* State *)

NoResponse == [op |-> "none", status |-> 0, body |-> EmptyDict]
Response(op, r) == [op |-> op, status |-> r.status, body |-> r.body]

NewHist(day) ==
  [created |-> day, appended |-> << >>, ok |-> 0, partial |-> 0,
   prompt_tokens |-> 0, completion_tokens |-> 0]

Idle == [pc |-> "idle", session |-> EmptyDict, request |-> NoRequest, messages |-> << >>]

Init ==
  /\ session = EmptyDict
  /\ today = 1
  /\ now = 0
  /\ request = NoRequest
  /\ calls = << >>
  /\ response = NoResponse
  /\ hist = NewHist(1)
  /\ inflight = [t \in Threads |-> Idle]

(* the history after a /query call that reached the provider *)
HistAfter(h, s, req, out, r, day, t) ==
  IF r.response.status = 200
  THEN [h EXCEPT !.appended = Append(@, [user |-> req.data["query"],
                                         grok |-> r.response.body.response,
                                         timestamp |-> Timestamp(day, t)]),
                 !.ok = @ + 1,
                 !.prompt_tokens = @ + out.prompt_tokens,
                 !.completion_tokens = @ + out.completion_tokens]
  ELSE IF r.session # s
  THEN [h EXCEPT !.partial = @ + 1]
  ELSE h

----------------------------------------------------------------------------
(* The handlers, one request at a time *)

(* A plausible slip: the conversation is initialised on every visit *)
home_AlwaysResets(maxNow) ==
  /\ now < maxNow
  /\ session' = Put(Put(session, "conversation", << >>),
                    "session_start", Timestamp(today, now))
  /\ now' = now + 1
  /\ hist' = NewHist(today)
  /\ request' = OtherRequest("/")
  /\ calls' = << >>
  /\ response' = [op |-> "home", status |-> 200, body |-> [template |-> "index.html"]]
  /\ UNCHANGED <<today, inflight>>

(* GET / *)
home(maxNow) ==
  /\ IF ~Has(session, "conversation")
     THEN /\ now < maxNow
          /\ session' = Put(Put(session, "conversation", << >>),
                            "session_start", Timestamp(today, now))
          /\ now' = now + 1
          /\ hist' = NewHist(today)
     ELSE UNCHANGED <<session, now, hist>>
  /\ request' = OtherRequest("/")
  /\ calls' = << >>
  /\ response' = [op |-> "home", status |-> 200, body |-> [template |-> "index.html"]]
  /\ UNCHANGED <<today, inflight>>

(* POST /query.  The provider's outcome matters only when the handler gets to the
   call; a call that returns early draws none. *)
query_route(Reqs, Outs, maxNow) ==
  \E req \in Reqs :
  \E out \in IF EarlyReturn(session, req) # NoError THEN {Raised} ELSE Outs :
  \E r \in {QueryHandler(session, req, out, today, now)} :
       /\ request' = req
       /\ session' = r.session
       /\ response' = Response("query", r.response)
       /\ calls' = r.calls
       /\ IF r.calls = << >>
          THEN UNCHANGED <<now, hist>>
          ELSE /\ now < maxNow
               /\ now' = now + 1
               /\ hist' = HistAfter(hist, session, req, out, r, today, now)
       /\ UNCHANGED <<today, inflight>>

(* GET /session-status *)
session_status ==
  /\ request' = OtherRequest("/session-status")
  /\ calls' = << >>
  /\ response' =
       [op |-> "status", status |-> 200,
        body |-> [active |-> Has(session, "conversation"),
                  conversation_count |-> Len(Get(session, "conversation", << >>)),
                  session_start |-> Get(session, "session_start", [unknown |-> TRUE]),
                  usage_today |-> Get(session, "usage_today", EmptyDict)]]
  /\ UNCHANGED <<session, today, now, hist, inflight>>

(* A plausible slip: only the conversation is dropped, session.pop('conversation') *)
clear_session_KeepsUsage ==
  /\ session' = [k \in (DOMAIN session) \ {"conversation"} |-> session[k]]
  /\ request' = OtherRequest("/clear-session")
  /\ calls' = << >>
  /\ response' = [op |-> "clear", status |-> 200, body |-> [status |-> "cleared"]]
  /\ UNCHANGED <<today, now, hist, inflight>>

(* POST /clear-session *)
clear_session ==
  /\ session' = EmptyDict
  /\ request' = OtherRequest("/clear-session")
  /\ calls' = << >>
  /\ response' = [op |-> "clear", status |-> 200, body |-> [status |-> "cleared"]]
  /\ UNCHANGED <<today, now, hist, inflight>>

(* The session cookie outlives permanent_session_lifetime without a request *)
SessionTimeout ==
  /\ session # EmptyDict
  /\ session' = EmptyDict
  /\ request' = NoRequest
  /\ calls' = << >>
  /\ response' = NoResponse
  /\ UNCHANGED <<today, now, hist, inflight>>

(* Midnight passes *)
Midnight ==
  /\ today < MaxDay
  /\ today' = today + 1
  /\ request' = NoRequest
  /\ calls' = << >>
  /\ response' = NoResponse
  /\ UNCHANGED <<session, now, hist, inflight>>

Home == home(MaxNow)
Query == query_route(Requests, Outcomes, MaxNow)

Next ==
  \/ Home
  \/ Query
  \/ session_status
  \/ clear_session
  \/ SessionTimeout
  \/ Midnight

Spec == Init /\ [][Next]_vars

QuotaHome == home(QuotaMaxNow)
QuotaQuery == query_route(QuotaRequests, QuotaOutcomes, QuotaMaxNow)

QuotaNext ==
  \/ QuotaHome
  \/ QuotaQuery
  \/ Midnight

QuotaSpec == Init /\ [][QuotaNext]_vars

----------------------------------------------------------------------------
(* The handlers on the threaded server: app.run serves each request on its own
   thread, Flask opens the session when the request comes in and saves it with
   the response, and nothing serialises two requests of one session. *)

ConcHome == home(ConcMaxNow)

(* query_route from the request coming in to the provider call *)
query_begin(t) ==
  /\ inflight[t].pc = "idle"
  /\ \E req \in ConcRequests :
       LET early == EarlyReturn(session, req)
       IN IF early # NoError
          THEN /\ request' = req
               /\ response' = Response("query", early)
               /\ calls' = << >>
               /\ UNCHANGED <<session, inflight>>
          ELSE /\ inflight' = [inflight EXCEPT ![t] =
                                 [pc |-> "calling", session |-> session, request |-> req,
                                  messages |-> BuildMessages(session, req.data["query"])]]
               /\ UNCHANGED <<session, request, response, calls>>
  /\ UNCHANGED <<today, now, hist>>

(* query_route from the provider's answer to the response, which saves the session *)
query_finish(t) ==
  /\ inflight[t].pc = "calling"
  /\ now < ConcMaxNow
  /\ \E out \in ConcOutcomes :
     \E r \in {AfterProvider(inflight[t].session, inflight[t].request, out, today, now)} :
       LET mine == inflight[t]
       IN /\ session' = r.session
          /\ request' = mine.request
          /\ response' = Response("query", r.response)
          /\ calls' = <<[messages |-> mine.messages, outcome |-> out]>>
          /\ hist' = HistAfter(hist, mine.session, mine.request, out, r, today, now)
  /\ now' = now + 1
  /\ inflight' = [inflight EXCEPT ![t] = Idle]
  /\ UNCHANGED today

ConcNext ==
  \/ ConcHome
  \/ \E t \in Threads : query_begin(t)
  \/ \E t \in Threads : query_finish(t)

ConcSpec == Init /\ [][ConcNext]_vars

----------------------------------------------------------------------------
(* The handlers over conversations long enough for the prompt window to cut *)

PromptHome == home(PromptMaxNow)
PromptQuery == query_route(PromptRequests, PromptOutcomes, PromptMaxNow)

PromptNext ==
  \/ PromptHome
  \/ PromptQuery

PromptSpec == Init /\ [][PromptNext]_vars

----------------------------------------------------------------------------
(* Properties *)

AllIdle == \A t \in Threads : inflight[t].pc = "idle"

UsageOf(s, day) == Get(s, "usage_today", ZeroUsage(day))

(* the log is the last min(n, 10) of the n exchanges appended since creation *)
LogIsTailOfAppended ==
  LET log == session["conversation"]
      n == Len(hist.appended)
  IN /\ Len(log) <= 10
     /\ Len(log) = Min(n, 10)
     /\ \A i \in 1..Len(log) : log[i] = hist.appended[n - Len(log) + i]

NotStar(ch) == ch # "*"

(* what the cleaning is to return for the provider's text: the text without its
   asterisks, or the fallback when nothing but blanks is left *)
Sanitized(message) ==
  LET kept == IF message.is_none THEN << >> ELSE SelectSeq(message.content, NotStar)
  IN IF IsBlank(kept) THEN FallbackText ELSE kept

(* C1: after any sequence of /query calls served one at a time, the conversation
   log holds at most ten exchanges and equals the last min(n, 10) of the n
   exchanges appended since the session was created, oldest first. *)
C1_LogIsLastTenAppended ==
  Has(session, "conversation") => LogIsTailOfAppended

C1_Witness ==
  /\ Has(session, "conversation")
  /\ response.status = 200
  /\ Len(hist.appended) = 12
  /\ Len(session["conversation"]) = 10

(* C2: when the provider call raises, /query answers with the provider's error
   (status 500) and the session, usage record and conversation log included, is
   what it was before the call. *)
C2_ProviderFailureChangesNothing ==
  [][ (request'.route = "/query" /\ calls' # << >> /\ calls'[1].outcome.raised)
        => /\ response'.status = 500
           /\ response'.body.error = "provider error"
           /\ session' = session ]_vars

C2_Witness ==
  /\ request.route = "/query"
  /\ calls # << >>
  /\ calls[1].outcome.raised
  /\ response.status = 500
  /\ Has(session, "usage_today")
  /\ session["usage_today"].requests >= 1
  /\ Len(session["conversation"]) >= 1

(* C3: the rate-limit check denies exactly when today's usage has requests >= 50
   or completion_tokens >= 25000, and allows otherwise. *)
C3_DeniesExactlyAtLimits ==
  LET u == UsageOf(session, today)
  IN u.date = today =>
       (~check_rate_limit(session).can_proceed
          <=> (u.requests >= 50 \/ u.completion_tokens >= 25000))

(* C4: with /query calls served one at a time, the usage record of the current
   day never shows more than 50 requests. *)
C4_NeverOverFiftyRequests ==
  (Has(session, "usage_today") /\ session["usage_today"].date = today)
    => session["usage_today"].requests <= 50

(* C5: a /query call answered with SessionExpired (440), InvalidInput (400) or
   RateLimitExceeded (429) made no provider call and left the session, usage
   record and conversation log included, unchanged. *)
C5_EarlyErrorsChangeNothing ==
  [][ (request'.route = "/query" /\ response'.status \in {440, 400, 429})
        => (calls' = << >> /\ session' = session) ]_vars

C5_Witness ==
  /\ request.route = "/query"
  /\ response.status = 429
  /\ calls = << >>
  /\ Len(session["conversation"]) >= 1
  /\ session["usage_today"].completion_tokens > 25000

(* C6: a /query call on a session whose usage record is dated before today is
   never denied with RateLimitExceeded. *)
C6_StaleRecordNeverDenies ==
  (request.route = "/query" /\ response.status = 429)
    => session["usage_today"].date = today

(* C7: every recording of usage leaves the record dated today, and recording
   (p, c) on a record dated another day leaves exactly requests = 1,
   prompt_tokens = p, completion_tokens = c. *)
C7_RecordResetsStaleUsage ==
  [][ (/\ request'.route = "/query"
       /\ calls' # << >>
       /\ ~calls'[1].outcome.raised
       /\ calls'[1].outcome.has_usage)
        => /\ Has(session', "usage_today")
           /\ session'["usage_today"].date = today
           /\ (Has(session, "usage_today") /\ session["usage_today"].date # today)
                => session'["usage_today"] =
                     [date |-> today,
                      requests |-> 1,
                      prompt_tokens |-> calls'[1].outcome.prompt_tokens,
                      completion_tokens |-> calls'[1].outcome.completion_tokens] ]_vars

C7_Witness ==
  /\ request.route = "/query"
  /\ response.status = 200
  /\ today = 2
  /\ hist.created = 1
  /\ hist.partial = 0
  /\ hist.ok >= 2
  /\ session["usage_today"].date = 2
  /\ session["usage_today"].requests = 1

(* C8: in a session created today in which every /query call that reached the
   provider succeeded, after n such calls (n within the quota) the usage record
   shows requests = n and the sums of the returned token counts, the log holds
   min(n, 10) exchanges, and the last call returned the sanitized provider text
   and the returned token counts. *)
C8_UsageAndLogCountSuccesses ==
  (/\ Has(session, "conversation")
   /\ hist.created = today
   /\ hist.partial = 0
   /\ hist.ok <= 50)
    => /\ UsageOf(session, today).requests = hist.ok
       /\ UsageOf(session, today).prompt_tokens = hist.prompt_tokens
       /\ UsageOf(session, today).completion_tokens = hist.completion_tokens
       /\ Len(session["conversation"]) = Min(hist.ok, 10)
       /\ (request.route = "/query" /\ response.status = 200)
            => /\ response.body.response = Sanitized(calls[1].outcome.choices[1])
               /\ response.body.usage.prompt_tokens = calls[1].outcome.prompt_tokens
               /\ response.body.usage.completion_tokens = calls[1].outcome.completion_tokens
               /\ response.body.usage.total_tokens = calls[1].outcome.total_tokens

C8_Witness ==
  /\ request.route = "/query"
  /\ response.status = 200
  /\ hist.created = today
  /\ hist.ok = 12
  /\ session["usage_today"].requests = 12
  /\ session["usage_today"].prompt_tokens = 130
  /\ Len(session["conversation"]) = 10

(* C9: two /query calls of one session that overlap and both succeed leave the
   state some sequential order of the two would: with no call in flight, the
   usage record counts every successful call and the log holds every appended
   exchange (the last ten). *)
C9_ConcurrentCallsSerialize ==
  (/\ AllIdle
   /\ Has(session, "conversation")
   /\ hist.created = today
   /\ hist.partial = 0)
    => /\ UsageOf(session, today).requests = hist.ok
       /\ LogIsTailOfAppended

(* C10: no /query call gets past the rate-limit check while another call of the
   same session that got past it has not yet recorded its usage. *)
C10_OneCallPastTheCheck ==
  Cardinality({t \in Threads : inflight[t].pc = "calling"}) <= 1

(* a /query request that carries no query text: not JSON, no query key, or an
   empty query *)
NoQueryText(req) ==
  \/ ~req.is_json
  \/ ~Has(req.data, "query")
  \/ req.data["query"] = << >>

(* C11: /query on an active session with a missing or empty query text is
   answered InvalidInput (400) and makes no provider call. *)
C11_EmptyQueryIsInvalid ==
  (request.route = "/query" /\ Has(session, "conversation") /\ NoQueryText(request))
    => (response.status = 400 /\ calls = << >>)

(* C12: the messages sent to the provider are the system prompt, then for the
   last min(3, len(log)) exchanges of the log, oldest first, the stored query as
   user and the stored response as assistant, then one final user message:
   2 * min(3, len(log)) + 2 messages, none from an older exchange. *)
C12_PromptIsSystemWindowQuery ==
  [][ (request'.route = "/query" /\ calls' # << >>)
        => LET log == session["conversation"]
               k == Min(3, Len(log))
               msgs == calls'[1].messages
           IN /\ Len(msgs) = 2 * k + 2
              /\ msgs[1] = [role |-> "system", content |-> SYSTEM_PROMPT]
              /\ \A j \in 1..k :
                   /\ msgs[2 * j] =
                        [role |-> "user", content |-> log[Len(log) - k + j].user]
                   /\ msgs[2 * j + 1] =
                        [role |-> "assistant", content |-> log[Len(log) - k + j].grok]
              /\ msgs[2 * k + 2].role = "user" ]_vars

C12_Witness ==
  /\ request.route = "/query"
  /\ calls # << >>
  /\ Len(calls[1].messages) = 8
  /\ Len(session["conversation"]) = 5
  /\ session["conversation"][1].user # session["conversation"][2].user
  /\ session["conversation"][2].grok # session["conversation"][3].grok

(* text that is fit to show: no asterisk in it, and not empty or all blanks *)
CleanText(text) ==
  /\ \A i \in 1..Len(text) : text[i] # "*"
  /\ text # << >>
  /\ ~IsBlank(text)

(* C13: every assistant response stored in the conversation log, and every
   content returned by a successful /query, holds no asterisk and is neither
   empty nor all whitespace. *)
C13_StoredResponsesAreClean ==
  /\ \A i \in 1..Len(Get(session, "conversation", << >>)) :
       CleanText(session["conversation"][i].grok)
  /\ (request.route = "/query" /\ response.status = 200)
       => CleanText(response.body.response)

C13_Witness ==
  /\ request.route = "/query"
  /\ response.status = 200
  /\ calls[1].outcome.choices[1].content = <<"*", "*", "4", "*", "*", "*">>
  /\ response.body.response = <<"4">>
  /\ Len(session["conversation"]) = 2
  /\ session["conversation"][1].grok = FallbackText
  /\ session["conversation"][2].grok = <<"4">>

(* C14: /clear-session leaves the session empty, from any state and however often
   it is called; on the empty session /session-status reports active = false,
   conversation_count = 0 and no usage, and /query is answered SessionExpired
   (440) and leaves the session empty. *)
C14_ClearIsIdempotentReset ==
  [][ /\ request'.route = "/clear-session" => session' = EmptyDict
      /\ (session = EmptyDict /\ request'.route = "/session-status")
           => /\ response'.body.active = FALSE
              /\ response'.body.conversation_count = 0
              /\ response'.body.usage_today = EmptyDict
              /\ session' = EmptyDict
      /\ (session = EmptyDict /\ request'.route = "/query")
           => /\ response'.status = 440
              /\ session' = EmptyDict ]_vars

C14_Witness ==
  /\ request.route = "/clear-session"
  /\ session = EmptyDict
  /\ hist.ok >= 1
  /\ hist.created = today

(* C15: /session-status reports active exactly when the session has a
   conversation, conversation_count equal to the length of the log, and the
   session's usage for today (nothing when the stored record is of an earlier
   day), and leaves the session unchanged. *)
C15_StatusReportsTodayAndReadsOnly ==
  [][ request'.route = "/session-status"
        => /\ response'.body.active = Has(session, "conversation")
           /\ response'.body.conversation_count = Len(Get(session, "conversation", << >>))
           /\ response'.body.usage_today =
                IF Has(session, "usage_today") /\ session["usage_today"].date = today
                THEN session["usage_today"]
                ELSE EmptyDict
           /\ session' = session ]_vars

(* a /query request the validation turns away: not JSON, no body, or no query key *)
InvalidRequest(req) ==
  \/ ~req.is_json
  \/ req.data = EmptyDict
  \/ ~Has(req.data, "query")

(* C16: /query checks the session first, then the request, then the rate limit:
   without a conversation it answers SessionExpired (440) whatever the request,
   and on an active session an invalid request is answered InvalidInput (400)
   even when the quota is used up. *)
C16_SessionThenInputThenQuota ==
  request.route = "/query"
    => /\ ~Has(session, "conversation") => response.status = 440
       /\ (Has(session, "conversation") /\ InvalidRequest(request))
            => response.status = 400

C16_Witness ==
  /\ request.route = "/query"
  /\ Has(session, "conversation")
  /\ InvalidRequest(request)
  /\ response.status = 400
  /\ ~check_rate_limit(session).can_proceed

(* C17: only the final user message of a prompt carries the instruction prefix;
   every stored exchange keeps the query as it was submitted, so the user
   messages replayed from the log are the original queries. *)
C17_PrefixOnlyOnFinalMessage ==
  Has(session, "conversation")
    => LET log == session["conversation"]
           n == Len(hist.appended)
       IN /\ Len(log) <= n
          /\ \A i \in 1..Len(log) : log[i].user = hist.appended[n - Len(log) + i].user
          /\ (request.route = "/query" /\ calls # << >>)
               => LET msgs == calls[1].messages
                  IN /\ msgs[Len(msgs)].content = QueryPrefix \o request.data["query"]
                     /\ \A j \in 1..((Len(msgs) - 2) \div 2) :
                          \E i \in 1..n : msgs[2 * j].content = hist.appended[i].user

C17_Witness ==
  /\ request.route = "/query"
  /\ response.status = 200
  /\ Len(session["conversation"]) = 3
  /\ Len(calls[1].messages) = 6
  /\ calls[1].messages[2].content = Hi
  /\ calls[1].messages[4].content = << >>
  /\ session["conversation"][3].user = Hi

(* C18: a /query call changes the usage record exactly when it appends an
   exchange to the conversation log, whatever its result. *)
C18_UsageAndAppendGoTogether ==
  [][ request'.route = "/query"
        => ((Get(session', "usage_today", EmptyDict) # Get(session, "usage_today", EmptyDict))
              <=> (Get(session', "conversation", << >>) # Get(session, "conversation", << >>))) ]_vars

(* C19: GET / creates an empty conversation log (and the start time) only when
   the session has no conversation, keeping what else the session holds; on a
   session that has one it leaves the whole session unchanged. *)
C19_HomeCreatesOnlyOnce ==
  [][ request'.route = "/"
        => IF Has(session, "conversation")
           THEN session' = session
           ELSE /\ session'["conversation"] = << >>
                /\ Has(session', "session_start")
                /\ Get(session', "usage_today", EmptyDict)
                     = Get(session, "usage_today", EmptyDict) ]_vars

C19_Witness ==
  /\ request.route = "/"
  /\ Len(session["conversation"]) >= 1
  /\ session["usage_today"].requests >= 1

====
